---- MODULE Spec2Model ----
(***************************************************************************)
(* Model of monitoring.py: the Module table formatter, the three          *)
(* collectors (DiskModule, AptModule, LogModule) and the __main__ loop     *)
(* that aggregates their tables into one report.                           *)
(*                                                                         *)
(* Python strings are TLA+ strings (Len, \o and SubSeq work on them).      *)
(* Python values that may be str, int or None are tagged records so that   *)
(* they can be compared with each other.  Non-ASCII letters of the titles  *)
(* and headers are written as their ASCII base letter (same length).       *)
(***************************************************************************)
EXTENDS Integers, Sequences, FiniteSets, TLC

VARIABLES
    platform,         \* sys.platform
    DISK_PARTITIONS,  \* conf.DISK_PARTITIONS: sequence of paths
    fs,               \* path -> what shutil.disk_usage(path) finds
    log_dir,          \* what os.scandir(LogModule.log_path) yields, in order
    MIN_SIZE,         \* LogModule.MIN_SIZE
    MAX_ENTRIES,      \* LogModule.MAX_ENTRIES
    apt,              \* the apt import: NoApt or a package cache
    pc,               \* position of the running script / call
    idx,              \* __main__: index in MODULES of the next module
    body,             \* __main__: body
    plain,            \* __main__: plain
    stdout,           \* lines printed by __main__
    sent,             \* (body, plain) pairs given to message.send()
    called,           \* modules whose get_data() was invoked, in order
    cls,              \* make_table: the class (title, headers)
    data,             \* make_table: the data argument
    filename,         \* get_base_name: the filename argument
    result            \* outcome of the last direct call

vars == <<platform, DISK_PARTITIONS, fs, log_dir, MIN_SIZE, MAX_ENTRIES, apt,
          pc, idx, body, plain, stdout, sent, called, cls, data, filename,
          result>>

-----------------------------------------------------------------------------
(* Python values *)

PyStr(s) == [kind |-> "str", s |-> s, n |-> 0]

PyInt(n) == [kind |-> "int", s |-> "", n |-> n]

None == [kind |-> "NoneType", s |-> "", n |-> 0]

Digits == "0123456789"

Digit(d) == SubSeq(Digits, d + 1, d + 1)

RECURSIVE IntToStr(_)
IntToStr(n) == IF n < 10 THEN Digit(n) ELSE IntToStr(n \div 10) \o Digit(n % 10)

\* str(item) / "{}".format(item)
str(item) ==
    CASE item.kind = "str" -> item.s
      [] item.kind = "int" -> IntToStr(item.n)
      [] OTHER -> "None"

\* outcome of a call: a returned value or a raised exception
Return(v) == [status |-> "ok", exc |-> "", value |-> v]

Raise(e) == [status |-> "raise", exc |-> e, value |-> <<>>]

NoResult == [status |-> "none", exc |-> "", value |-> <<>>]

-----------------------------------------------------------------------------
(* sizeof_fmt *)

\* a / b rounded to the nearest integer, ties to even (what "%.1f" does on
\* a binary float; num / 1024.0 is exact for the integers of the model)
RoundHalfEven(a, b) ==
    LET q == a \div b
        r == a % b
    IN  IF 2 * r < b THEN q
        ELSE IF 2 * r > b THEN q + 1
        ELSE IF q % 2 = 0 THEN q ELSE q + 1

\* "%.1f" % (n / d)
Fmt1f(n, d) ==
    LET t == RoundHalfEven(10 * n, d)
    IN  IntToStr(t \div 10) \o "." \o Digit(t % 10)

Units == <<"", "Ki", "Mi", "Gi", "Ti", "Pi", "Ei", "Zi">>

RECURSIVE sizeof_loop(_, _, _)
sizeof_loop(num, d, k) ==
    IF k > Len(Units) THEN Fmt1f(num, d) \o "Yi" \o "B"
    ELSE IF num < 1024 * d THEN Fmt1f(num, d) \o " " \o Units[k] \o "B"
    ELSE sizeof_loop(num, d * 1024, k + 1)

sizeof_fmt(num) == sizeof_loop(num, 1, 1)

-----------------------------------------------------------------------------
(* Module.make_table *)

RECURSIVE Repeat(_, _)
Repeat(s, k) == IF k = 0 THEN "" ELSE s \o Repeat(s, k - 1)

RECURSIVE HeadersBody(_)
HeadersBody(hs) ==
    IF hs = <<>> THEN ""
    ELSE "<th>" \o Head(hs) \o "</th>" \o HeadersBody(Tail(hs))

RECURSIVE HeadersPlain(_)
HeadersPlain(hs) ==
    IF hs = <<>> THEN "" ELSE Head(hs) \o ", " \o HeadersPlain(Tail(hs))

RECURSIVE LineBody(_)
LineBody(line) ==
    IF line = <<>> THEN ""
    ELSE "<td>" \o str(Head(line)) \o "</td>" \o LineBody(Tail(line))

RECURSIVE LinePlain(_)
LinePlain(line) ==
    IF line = <<>> THEN "" ELSE str(Head(line)) \o ", " \o LinePlain(Tail(line))

\* make_table without the check of the row length
LineAcceptedAny(line, headers) == TRUE

\* the assert of line 47
LineAccepted(line, headers) == Len(line) = Len(headers)

RECURSIVE table_lines(_, _, _, _)
table_lines(headers, lines, b, p) ==
    IF lines = <<>> THEN Return(<<b \o "</tbody></table>", p \o "\n">>)
    ELSE IF ~LineAccepted(Head(lines), headers) THEN Raise("AssertionError")
    ELSE table_lines(headers, Tail(lines),
                     b \o "<tr>" \o LineBody(Head(lines)) \o "</tr>",
                     p \o LinePlain(Head(lines)) \o "\n")

make_table(c, d) ==
    table_lines(c.headers, d,
        "<h1>" \o c.title \o "</h1>" \o "<table><thead><tr>"
            \o HeadersBody(c.headers) \o "</tr></thead><tbody>",
        c.title \o "\n" \o Repeat("=", Len(c.title)) \o "\n"
            \o HeadersPlain(c.headers) \o "\n")

-----------------------------------------------------------------------------
(* DiskModule *)

DiskModule == [name |-> "DiskModule", title |-> "Espace disque",
               headers |-> <<"Partition", "Used", "Total", "Percent">>,
               platforms |-> {"linux", "darwin"}]

\* "{:.2%}".format(used / total), total > 0 (no usage of the model falls on a
\* rounding tie, where the binary float decides)
Percent(used, total) ==
    LET h == RoundHalfEven(10000 * used, total)
    IN  IntToStr(h \div 100) \o "." \o Digit((h \div 10) % 10) \o Digit(h % 10)
            \o "%"

\* the loop of lines 70-78; du is the disk_usage local (bound = FALSE until
\* the first iteration assigns it)
RECURSIVE disk_loop(_, _, _, _, _)
disk_loop(parts, usage, d, used, du) ==
    IF parts = <<>> THEN
        IF ~du.bound THEN Raise("UnboundLocalError")
        ELSE IF du.total = 0 THEN Raise("ZeroDivisionError")
        ELSE Return(Append(d, <<PyStr("TOTAL"), PyStr(sizeof_fmt(used)),
                                PyStr(sizeof_fmt(du.total)),
                                PyStr(Percent(used, du.total))>>))
    ELSE
        LET part == Head(parts)
            u == usage[part]
        IN  IF ~u.exists THEN Raise("FileNotFoundError")
            ELSE IF u.total = 0 THEN Raise("ZeroDivisionError")
            ELSE disk_loop(Tail(parts), usage,
                     Append(d, <<PyStr(part), PyStr(sizeof_fmt(u.used)),
                                 PyStr(""), PyStr(Percent(u.used, u.total))>>),
                     used + u.used,
                     [bound |-> TRUE, total |-> u.total, used |-> u.used])

DiskModule_get_data(parts, usage) ==
    disk_loop(parts, usage, <<>>, 0, [bound |-> FALSE, total |-> 0, used |-> 0])

-----------------------------------------------------------------------------
(* AptModule *)

AptModule == [name |-> "AptModule", title |-> "Mises a jour",
              headers |-> <<"Nom", "Installe", "Disponible">>,
              platforms |-> {"linux"}]

RECURSIVE apt_loop(_, _)
apt_loop(pkgs, d) ==
    IF pkgs = <<>> THEN Return(d)
    ELSE LET pkg == Head(pkgs)
         IN  apt_loop(Tail(pkgs),
                 IF pkg.is_upgradable
                 THEN Append(d, <<PyStr(pkg.name), PyStr(pkg.installed),
                                  PyStr(pkg.candidate)>>)
                 ELSE d)

\* a.present = FALSE is apt = None after the ImportError of lines 8-11
AptModule_get_data(a) ==
    IF ~a.present THEN Raise("AttributeError")
    ELSE IF ~a.update_ok THEN Raise("FetchFailedException")
    ELSE apt_loop(a.pkgs, <<>>)

-----------------------------------------------------------------------------
(* LogModule *)

LogModule == [name |-> "LogModule", title |-> "Fichiers logs",
              headers |-> <<"Nom", "Nombre de fichiers", "Taille">>,
              platforms |-> {"linux", "darwin"}]

Max(S) == CHOOSE x \in S : \A y \in S : y <= x

Min(S) == CHOOSE x \in S : \A y \in S : x <= y

\* s holds no line feed: the part of a name that '.*' can run over
NoNewline(s) == \A k \in 1..Len(s) : SubSeq(s, k, k) # "\n"

\* the ends i of group 1 for which '(.*).log' matches at the start of f:
\* '.*' over f[1..i], '.' on f[i+1] (any character but a line feed), then
\* 'log'; the three optional groups that follow always match (maybe empty)
GroupEnds(f) ==
    {i \in 0..(Len(f) - 4) :
        /\ NoNewline(SubSeq(f, 1, i + 1))
        /\ SubSeq(f, i + 2, i + 4) = "log"}

\* a lazy '.*?' would stop at the first match
LazyEnd(S) == Min(S)

\* '.*' is greedy: the first match found by backtracking is the longest
GreedyEnd(S) == Max(S)

get_base_name(f) ==
    IF GroupEnds(f) = {} THEN None
    ELSE PyStr(SubSeq(f, 1, GreedyEnd(GroupEnds(f))))

\* logs is the dict of line 120, kept as the sequence of its items in
\* insertion order
HasKey(logs, key) == \E k \in 1..Len(logs) : logs[k].key = key

\* lines 124-125: logs.get(basename) is falsy only when the key is missing
\* (a stored entry is a non-empty dict)
LogsEnsure(logs, key) ==
    IF HasKey(logs, key) THEN logs
    ELSE Append(logs, [key |-> key, total_size |-> 0, file_number |-> 0])

\* lines 126-127
LogsCount(logs, key, size) ==
    [k \in 1..Len(logs) |->
        IF logs[k].key = key
        THEN [key |-> key, total_size |-> logs[k].total_size + size,
              file_number |-> logs[k].file_number + 1]
        ELSE logs[k]]

RECURSIVE scan_loop(_, _)
scan_loop(files, logs) ==
    IF files = <<>> THEN logs
    ELSE LET file == Head(files)
         IN  scan_loop(Tail(files),
                 IF file.is_file
                 THEN LogsCount(LogsEnsure(logs, get_base_name(file.name)),
                                get_base_name(file.name), file.st_size)
                 ELSE logs)

\* lines 128-133: one [logname, file_number, total_size] item per group
LogItems(logs) ==
    [k \in 1..Len(logs) |->
        [logname |-> logs[k].key, file_number |-> logs[k].file_number,
         total_size |-> logs[k].total_size]]

\* sorted(data, key=itemgetter(2)): stable, ascending
RECURSIVE InsertSorted(_, _)
InsertSorted(sq, x) ==
    IF sq = <<>> THEN <<x>>
    ELSE IF sq[Len(sq)].total_size <= x.total_size THEN Append(sq, x)
    ELSE Append(InsertSorted(SubSeq(sq, 1, Len(sq) - 1), x), sq[Len(sq)])

RECURSIVE sorted(_)
sorted(sq) ==
    IF sq = <<>> THEN <<>>
    ELSE InsertSorted(sorted(SubSeq(sq, 1, Len(sq) - 1)), sq[Len(sq)])

reversed(sq) == [k \in 1..Len(sq) |-> sq[Len(sq) + 1 - k]]

\* line 134 without reversed()
SortItemsAscending(items) == sorted(items)

\* line 134
SortItems(items) == reversed(sorted(items))

\* lines 136-143
RECURSIVE filter_loop(_, _, _, _)
filter_loop(items, final_data, min_size, max_entries) ==
    IF items = <<>> THEN final_data
    ELSE LET item == Head(items)
         IN  IF item.total_size < min_size
             THEN filter_loop(Tail(items), final_data, min_size, max_entries)
             ELSE IF Len(final_data) >= max_entries THEN final_data
             ELSE filter_loop(Tail(items),
                      Append(final_data,
                             <<item.logname, PyInt(item.file_number),
                               PyStr(sizeof_fmt(item.total_size))>>),
                      min_size, max_entries)

RECURSIVE SumNumber(_)
SumNumber(items) ==
    IF items = <<>> THEN 0 ELSE Head(items).file_number + SumNumber(Tail(items))

RECURSIVE SumSize(_)
SumSize(items) ==
    IF items = <<>> THEN 0 ELSE Head(items).total_size + SumSize(Tail(items))

\* line 144 summing only the groups that pass the MIN_SIZE filter
TotalRowKept(items) ==
    LET kept == SelectSeq(items, LAMBDA it : it.total_size >= MIN_SIZE)
    IN  <<PyStr("Total"), PyInt(SumNumber(kept)), PyStr(sizeof_fmt(SumSize(kept)))>>

\* line 144
TotalRow(items) ==
    <<PyStr("Total"), PyInt(SumNumber(items)), PyStr(sizeof_fmt(SumSize(items)))>>

\* dir.exists = FALSE: os.scandir raises
LogModule_get_data(dir, min_size, max_entries) ==
    IF ~dir.exists THEN Raise("FileNotFoundError")
    ELSE LET items == SortItems(LogItems(scan_loop(dir.files, <<>>)))
         IN  Return(Append(filter_loop(items, <<>>, min_size, max_entries),
                           TotalRow(items)))

-----------------------------------------------------------------------------
(* Bounds and input domains *)

MaxCols == 2
MaxRows == 2
MaxPrefixLen == 4
MaxParts == 2
MaxFiles == 3

SeqsUpTo(S, n) == UNION {[1..k -> S] : k \in 0..n}

Alphabet == {".", "l", "o", "g", "\n"}

RECURSIVE StringsUpTo(_)
StringsUpTo(n) ==
    IF n = 0 THEN {""}
    ELSE LET S == StringsUpTo(n - 1)
         IN  S \cup {s \o c : s \in S, c \in Alphabet}

Platforms == {"linux", "darwin", "win32"}

Paths == {"/", "/home"}

NoDisk == [exists |-> FALSE, total |-> 0, used |-> 0]

DiskUsages ==
    {NoDisk,
     [exists |-> TRUE, total |-> 0, used |-> 0],
     [exists |-> TRUE, total |-> 2048, used |-> 512],
     [exists |-> TRUE, total |-> 3000, used |-> 3000]}

NoApt == [present |-> FALSE, update_ok |-> FALSE, pkgs |-> <<>>]

Packages ==
    {[name |-> "vim", is_upgradable |-> TRUE, installed |-> "8.1",
      candidate |-> "8.2"],
     [name |-> "git", is_upgradable |-> FALSE, installed |-> "2.30",
      candidate |-> "2.30"]}

FileNames == {"a.log", "a.log.1.gz", "README", "notes.txt", "catalog"}

\* a regular file of 400 or 1500 bytes, or a directory
FileKinds == {<<TRUE, 400>>, <<TRUE, 1500>>, <<FALSE, 4096>>}

DirEntries ==
    {[name |-> nm, is_file |-> k[1], st_size |-> k[2]] :
        nm \in FileNames, k \in FileKinds}

\* the names of one directory are distinct
Listings(n) ==
    {l \in SeqsUpTo(DirEntries, n) :
        \A j, k \in 1..Len(l) : j # k => l[j].name # l[k].name}

NoDir == [exists |-> FALSE, files |-> <<>>]

Dir(files) == [exists |-> TRUE, files |-> files]

Titles == {"", "Logs"}

HeaderNames == {"Nom", "Taille"}

Cells == {PyStr("a"), PyInt(10), None}

Rotations == {"", ".3", ".8"}

Compressions == {"", ".gz", ".bz2"}

Stems == {".log", ""}

NoClass == [title |-> "", headers |-> <<>>]

-----------------------------------------------------------------------------
(* __main__ *)

MODULES == <<DiskModule, AptModule, LogModule>>

get_data(m) ==
    CASE m.name = "DiskModule" -> DiskModule_get_data(DISK_PARTITIONS, fs)
      [] m.name = "AptModule" -> AptModule_get_data(apt)
      [] OTHER -> LogModule_get_data(log_dir, MIN_SIZE, MAX_ENTRIES)

\* line 160: module.make_table(module.get_data())
Section(m) ==
    LET d == get_data(m)
    IN  IF d.status = "ok" THEN make_table(m, d.value) ELSE d

SkipNotice(m, p) == "[" \o m.title \o "] module not supported on " \o p

MainInit ==
    /\ pc = "loop"
    /\ idx = 1
    /\ body = ""
    /\ plain = ""
    /\ stdout = <<>>
    /\ sent = <<>>
    /\ called = <<>>
    /\ result = NoResult

\* lines 158-162, get_data and make_table return
Collect ==
    /\ pc = "loop"
    /\ idx <= Len(MODULES)
    /\ platform \in MODULES[idx].platforms
    /\ Section(MODULES[idx]).status = "ok"
    /\ body' = body \o Section(MODULES[idx]).value[1]
    /\ plain' = plain \o Section(MODULES[idx]).value[2]
    /\ called' = Append(called, MODULES[idx].name)
    /\ idx' = idx + 1
    /\ UNCHANGED <<platform, DISK_PARTITIONS, fs, log_dir, MIN_SIZE,
                   MAX_ENTRIES, apt, pc, stdout, sent, cls, data, filename,
                   result>>

\* lines 158-160, get_data raises: nothing catches it, the script ends
CollectRaises ==
    /\ pc = "loop"
    /\ idx <= Len(MODULES)
    /\ platform \in MODULES[idx].platforms
    /\ Section(MODULES[idx]).status = "raise"
    /\ called' = Append(called, MODULES[idx].name)
    /\ result' = Section(MODULES[idx])
    /\ pc' = "raised"
    /\ UNCHANGED <<platform, DISK_PARTITIONS, fs, log_dir, MIN_SIZE,
                   MAX_ENTRIES, apt, idx, body, plain, stdout, sent, cls,
                   data, filename>>

\* lines 159, 163-164
Skip ==
    /\ pc = "loop"
    /\ idx <= Len(MODULES)
    /\ platform \notin MODULES[idx].platforms
    /\ stdout' = Append(stdout, SkipNotice(MODULES[idx], platform))
    /\ idx' = idx + 1
    /\ UNCHANGED <<platform, DISK_PARTITIONS, fs, log_dir, MIN_SIZE,
                   MAX_ENTRIES, apt, pc, body, plain, sent, called, cls,
                   data, filename, result>>

\* lines 165-167
Finish ==
    /\ pc = "loop"
    /\ idx > Len(MODULES)
    /\ stdout' = Append(stdout, plain)
    /\ sent' = Append(sent, <<body, plain>>)
    /\ pc' = "done"
    /\ UNCHANGED <<platform, DISK_PARTITIONS, fs, log_dir, MIN_SIZE,
                   MAX_ENTRIES, apt, idx, body, plain, called, cls, data,
                   filename, result>>

\* one run of the script on a host
Init ==
    /\ platform \in Platforms
    /\ DISK_PARTITIONS \in SeqsUpTo({"/"}, 1)
    /\ fs \in [Paths -> {NoDisk, [exists |-> TRUE, total |-> 2048, used |-> 512]}]
    /\ log_dir \in {NoDir} \cup {Dir(l) : l \in Listings(1)}
    /\ MIN_SIZE = 1000
    /\ MAX_ENTRIES = 10
    /\ apt \in {NoApt} \cup
               {[present |-> TRUE, update_ok |-> u, pkgs |-> ps] :
                   u \in BOOLEAN, ps \in SeqsUpTo(Packages, 1)}
    /\ cls = NoClass
    /\ data = <<>>
    /\ filename = ""
    /\ MainInit

Next == Collect \/ CollectRaises \/ Skip \/ Finish

Spec == Init /\ [][Next]_vars

-----------------------------------------------------------------------------
(* Direct calls of the functions, as the unit tests make them *)

Idle ==
    /\ pc = "call"
    /\ idx = 1
    /\ body = ""
    /\ plain = ""
    /\ stdout = <<>>
    /\ sent = <<>>
    /\ called = <<>>
    /\ result = NoResult

HostDefault ==
    /\ platform = "linux"
    /\ DISK_PARTITIONS = <<>>
    /\ fs = [p \in Paths |-> NoDisk]
    /\ apt = NoApt

LogDefault ==
    /\ log_dir = NoDir
    /\ MIN_SIZE = 1000
    /\ MAX_ENTRIES = 10

Returned(r) ==
    /\ pc = "call"
    /\ pc' = "returned"
    /\ result' = r
    /\ UNCHANGED <<platform, DISK_PARTITIONS, fs, log_dir, MIN_SIZE,
                   MAX_ENTRIES, apt, idx, body, plain, stdout, sent, called,
                   cls, data, filename>>

\* make_table
InitTable ==
    /\ HostDefault
    /\ LogDefault
    /\ cls \in [title : Titles, headers : SeqsUpTo(HeaderNames, MaxCols)]
    /\ data \in SeqsUpTo(SeqsUpTo(Cells, MaxCols), MaxRows)
    /\ filename = ""
    /\ Idle

CallMakeTable == Returned(make_table(cls, data))

SpecTable == InitTable /\ [][CallMakeTable]_vars

\* LogModule.get_base_name
InitName ==
    /\ HostDefault
    /\ LogDefault
    /\ cls = NoClass
    /\ data = <<>>
    /\ filename \in {p \o st \o r \o c :
                        p \in StringsUpTo(MaxPrefixLen), st \in Stems,
                        r \in Rotations, c \in Compressions}
    /\ Idle

CallGetBaseName == Returned(Return(get_base_name(filename)))

SpecName == InitName /\ [][CallGetBaseName]_vars

\* LogModule.get_data
InitLog ==
    /\ HostDefault
    /\ log_dir \in {NoDir} \cup {Dir(l) : l \in Listings(MaxFiles)}
    /\ MIN_SIZE \in {0, 1000}
    /\ MAX_ENTRIES \in {1, 2, 10}
    /\ cls = NoClass
    /\ data = <<>>
    /\ filename = ""
    /\ Idle

CallLogGetData == Returned(LogModule_get_data(log_dir, MIN_SIZE, MAX_ENTRIES))

SpecLog == InitLog /\ [][CallLogGetData]_vars

\* DiskModule.get_data
InitDisk ==
    /\ platform = "linux"
    /\ DISK_PARTITIONS \in SeqsUpTo(Paths, MaxParts)
    /\ fs \in [Paths -> DiskUsages]
    /\ apt = NoApt
    /\ LogDefault
    /\ cls = NoClass
    /\ data = <<>>
    /\ filename = ""
    /\ Idle

CallDiskGetData == Returned(DiskModule_get_data(DISK_PARTITIONS, fs))

SpecDisk == InitDisk /\ [][CallDiskGetData]_vars

-----------------------------------------------------------------------------
(* Vocabulary of the properties *)

Ended == pc \in {"done", "raised"}

Applicable(m) == platform \in m.platforms

IsSubstring(a, b) ==
    \E k \in 1..(Len(b) - Len(a) + 1) : SubSeq(b, k, k + Len(a) - 1) = a

StartsWith(b, a) == Len(a) <= Len(b) /\ SubSeq(b, 1, Len(a)) = a

\* the lines of stdout that are a notice about module m
NoticesOf(m) ==
    {k \in 1..Len(stdout) : StartsWith(stdout[k], "[" \o m.title \o "]")}

\* the sections of the applicable modules that rendered, in registration order
RECURSIVE Report(_, _)
Report(k, part) ==
    IF k > Len(MODULES) THEN ""
    ELSE (IF Applicable(MODULES[k]) /\ Section(MODULES[k]).status = "ok"
          THEN Section(MODULES[k]).value[part] ELSE "")
         \o Report(k + 1, part)

\* C1: when the get_data() of exactly one applicable module fails, the run
\* still ends with the sections of all other applicable modules in body and
\* plain, the report handed to the Notifier, and one failure notice for the
\* failing module.
C1_FailureIsolation ==
    (Ended /\ Cardinality({k \in 1..Len(MODULES) :
                  Applicable(MODULES[k]) /\ get_data(MODULES[k]).status = "raise"}) = 1)
    => /\ Len(sent) = 1
       /\ \A k \in 1..Len(MODULES) :
            Applicable(MODULES[k]) =>
               IF get_data(MODULES[k]).status = "raise"
               THEN Cardinality(NoticesOf(MODULES[k])) = 1
               ELSE /\ IsSubstring(Section(MODULES[k]).value[1], sent[1][1])
                    /\ IsSubstring(Section(MODULES[k]).value[2], sent[1][2])

\* C2: at the end of every run, every module whose platforms do not contain
\* the current platform has had no get_data() call, has no section in body
\* or plain, and has exactly one skip notice naming it and the platform.
C2_PlatformGating ==
    Ended =>
        \A k \in 1..Len(MODULES) :
            ~Applicable(MODULES[k]) =>
                /\ \A j \in 1..Len(called) : called[j] # MODULES[k].name
                /\ ~IsSubstring("<h1>" \o MODULES[k].title \o "</h1>", body)
                /\ ~IsSubstring(MODULES[k].title \o "\n=", plain)
                /\ Cardinality(NoticesOf(MODULES[k])) = 1
                /\ \A j \in NoticesOf(MODULES[k]) :
                      stdout[j] = SkipNotice(MODULES[k], platform)

\* C3: every run ends with exactly one send, made after all modules were
\* processed, of the concatenation of the tables of the applicable modules
\* in registration order.
C3_ReportOrdering ==
    Ended =>
        /\ idx = Len(MODULES) + 1
        /\ sent = << <<Report(1, 1), Report(1, 2)>> >>

-----------------------------------------------------------------------------
(* LogModule.get_data: the directory seen independently of the code's dict *)

RegularFiles == {k \in 1..Len(log_dir.files) : log_dir.files[k].is_file}

RECURSIVE SumOver(_, _)
SumOver(S, f) ==
    IF S = {} THEN 0
    ELSE LET x == CHOOSE y \in S : TRUE IN f[x] + SumOver(S \ {x}, f)

FileSizes == [k \in 1..Len(log_dir.files) |-> log_dir.files[k].st_size]

GroupKeys == {get_base_name(log_dir.files[k].name) : k \in RegularFiles}

GroupFiles(key) ==
    {k \in RegularFiles : get_base_name(log_dir.files[k].name) = key}

GroupBytes(key) == SumOver(GroupFiles(key), FileSizes)

Qualifying == {g \in GroupKeys : GroupBytes(g) >= MIN_SIZE}

LogReturned == pc = "returned" /\ result.status = "ok"

\* the rows before the Total row
Displayed == SubSeq(result.value, 1, Len(result.value) - 1)

DisplayedKeys == {Displayed[k][1] : k \in 1..Len(Displayed)}

\* C4: the last row is ["Total", c, human_size(b)], c the number of all
\* regular files of the directory and b the sum of all their sizes.
C4_GrandTotal ==
    LogReturned =>
        result.value[Len(result.value)] =
            <<PyStr("Total"), PyInt(Cardinality(RegularFiles)),
              PyStr(sizeof_fmt(SumOver(RegularFiles, FileSizes)))>>

\* a call where one group is below MIN_SIZE and another qualifying group is
\* cut off by MAX_ENTRIES
C4_Witness ==
    /\ LogReturned
    /\ \E g \in GroupKeys : GroupBytes(g) < MIN_SIZE /\ GroupBytes(g) > 0
    /\ \E g \in Qualifying : g \notin DisplayedKeys
    /\ Len(Displayed) >= 1

\* C5: the rows before Total are groups of size >= MIN_SIZE in non-increasing
\* order of size, min(MAX_ENTRIES, number of such groups) of them, and no
\* omitted group of size >= MIN_SIZE is larger than a displayed one.
C5_ThresholdTruncation ==
    LogReturned =>
        /\ \A k \in 1..Len(Displayed) : Displayed[k][1] \in Qualifying
        /\ \A j, k \in 1..Len(Displayed) :
              j < k => /\ Displayed[j][1] # Displayed[k][1]
                       /\ GroupBytes(Displayed[j][1]) >= GroupBytes(Displayed[k][1])
        /\ Len(Displayed) = IF MAX_ENTRIES < Cardinality(Qualifying)
                            THEN MAX_ENTRIES ELSE Cardinality(Qualifying)
        /\ \A g \in Qualifying \ DisplayedKeys :
              \A d \in DisplayedKeys : GroupBytes(g) <= GroupBytes(d)

\* a call with more qualifying groups than MAX_ENTRIES and a group below
\* MIN_SIZE
C5_Witness ==
    /\ LogReturned
    /\ MAX_ENTRIES >= 1
    /\ Cardinality(Qualifying) > MAX_ENTRIES
    /\ \E g \in GroupKeys : g \notin Qualifying

\* names of the form prefix + ".log" + optional ".<digit>" + optional ".gz"
\* or ".bz2"
SuffixForms ==
    {r \o c : r \in {""} \cup {"." \o Digit(d) : d \in 0..9},
              c \in {"", ".gz", ".bz2"}}

\* the prefixes p with f = p + ".log" + s for a suffix s of that form
FormPrefixes(f) ==
    {SubSeq(f, 1, k) : k \in {j \in 0..Len(f) :
        \E sf \in SuffixForms : SubSeq(f, j + 1, Len(f)) = ".log" \o sf}}

\* C9: a regular file whose name is not of that form gets the null base
\* name, and get_data counts all such files in the one group keyed by null.
C9_UnmatchedNull ==
    LogReturned =>
        /\ \A k \in RegularFiles :
              FormPrefixes(log_dir.files[k].name) = {} =>
                  get_base_name(log_dir.files[k].name) = None
        /\ \A g \in GroupKeys \ {None} :
              \A k \in GroupFiles(g) : FormPrefixes(log_dir.files[k].name) # {}

-----------------------------------------------------------------------------
(* LogModule.get_base_name *)

NameReturned == pc = "returned" /\ result.status = "ok"

\* C8 as stated: get_base_name(p + ".log" + s) returns p for every prefix p.
C8_BaseNameAnyPrefix ==
    NameReturned => \A p \in FormPrefixes(filename) : result.value = PyStr(p)

\* C8 amended: get_base_name(p + ".log" + s) returns p for every prefix p
\* that holds no line feed (p may hold dots and ".log" itself).
C8_BaseName ==
    NameReturned =>
        \A p \in FormPrefixes(filename) : NoNewline(p) => result.value = PyStr(p)

\* a name whose prefix itself holds a dot and a 'log', with a rotation and a
\* compression suffix
C8_Witness ==
    /\ NameReturned
    /\ filename = ".log" \o ".log" \o ".3" \o ".gz"
    /\ result.value = PyStr(".log")

-----------------------------------------------------------------------------
(* Module.make_table *)

TableReturned == pc = "returned"

Malformed == \E k \in 1..Len(data) : Len(data[k]) # Len(cls.headers)

\* C6: with a row whose length differs from len(headers), make_table fails
\* and returns no (body, plain) pair.
C6_RejectsMalformed ==
    (TableReturned /\ Malformed) =>
        result.status = "raise" /\ result.value = <<>>

\* a call whose first row is well formed and whose second row is too long
C6_Witness ==
    /\ TableReturned
    /\ Len(data) = 2
    /\ Len(data[1]) = Len(cls.headers)
    /\ Len(data[2]) > Len(cls.headers)
    /\ result.status = "raise"

RECURSIVE Join(_, _)
Join(sq, sep) ==
    IF sq = <<>> THEN ""
    ELSE IF Len(sq) = 1 THEN sq[1]
    ELSE sq[1] \o sep \o Join(Tail(sq), sep)

RECURSIVE JoinedLines(_)
JoinedLines(lines) ==
    IF lines = <<>> THEN ""
    ELSE Join([k \in 1..Len(Head(lines)) |-> str(Head(lines)[k])], ", ")
             \o "\n" \o JoinedLines(Tail(lines))

\* C7: for well-formed rows the plain text is the title line, the line of
\* '=', the headers joined by ", ", one line per row of its stringified
\* cells joined by ", ", and a blank line.
C7_PlainJoined ==
    (TableReturned /\ ~Malformed) =>
        /\ result.status = "ok"
        /\ result.value[2] =
              cls.title \o "\n" \o Repeat("=", Len(cls.title)) \o "\n"
                  \o Join(cls.headers, ", ") \o "\n"
                  \o JoinedLines(data) \o "\n"

-----------------------------------------------------------------------------
(* DiskModule.get_data *)

DiskReturned == pc = "returned"

Queryable ==
    \A k \in 1..Len(DISK_PARTITIONS) :
        fs[DISK_PARTITIONS[k]].exists /\ fs[DISK_PARTITIONS[k]].total > 0

UsedOf == [k \in 1..Len(DISK_PARTITIONS) |-> fs[DISK_PARTITIONS[k]].used]

\* C10: for n >= 0 partitions that can be queried, get_data returns n + 1
\* rows: one per partition in configured order with its own used bytes and
\* percentage, then the TOTAL row with the sum of the used bytes and the
\* capacity of the last partition queried.
C10_DiskRows ==
    (DiskReturned /\ Queryable) =>
        /\ result.status = "ok"
        /\ Len(result.value) = Len(DISK_PARTITIONS) + 1
        /\ \A k \in 1..Len(DISK_PARTITIONS) :
              result.value[k] =
                  <<PyStr(DISK_PARTITIONS[k]),
                    PyStr(sizeof_fmt(fs[DISK_PARTITIONS[k]].used)), PyStr(""),
                    PyStr(Percent(fs[DISK_PARTITIONS[k]].used,
                                  fs[DISK_PARTITIONS[k]].total))>>
        /\ Len(DISK_PARTITIONS) >= 1 =>
              result.value[Len(DISK_PARTITIONS) + 1] =
                  LET last == fs[DISK_PARTITIONS[Len(DISK_PARTITIONS)]]
                      used == SumOver(DOMAIN UsedOf, UsedOf)
                  IN  <<PyStr("TOTAL"), PyStr(sizeof_fmt(used)),
                        PyStr(sizeof_fmt(last.total)),
                        PyStr(Percent(used, last.total))>>

====
